---- MODULE Spec2Model ----
(***************************************************************************)
(* Model of the Divider widget of iced_divider (src/src/divider.rs): the   *)
(* construction clamp of Divider::new, the builder calls, the persisted    *)
(* drag state and the press / move / release handler on_event with its     *)
(* locate and change closures.                                             *)
(*                                                                         *)
(* Numbers.  The widget computes in f32.  The model takes every input      *)
(* (value, range, step, bounds, handle size, cursor) from small sets of    *)
(* integers, with track extents that are powers of two, so that every f32  *)
(* operation of locate is exact on them; the quotient                      *)
(* percent * (end - start) / step is kept as a fraction and rounded half   *)
(* away from zero as f32::round does.  A division by a zero step follows   *)
(* IEEE 754: the quotient is infinite or NaN, the product with the step is *)
(* NaN, and f32::min(NaN, end) is end.                                     *)
(***************************************************************************)
EXTENDS Integers, Sequences, FiniteSets, TLC

\* ------------------------------------------------------------------ bounds
\* Cursor coordinates along the drag axis range over -1 .. MaxCoord.
MaxCoord == 5

\* Values handed to Divider::new range over -1 .. MaxValue.
MaxValue == 6

\* A recorded run holds at most MaxRun events.
MaxRun == 4

\* ------------------------------------------------------------------ inputs
Coords == -1 .. MaxCoord

\* Cursor coordinates across the drag axis: on the first and on the second
\* row (or column) of the grid.
CrossCoords == {0, 1}

ValueInputs == -1 .. MaxValue

Rect(px, py, w, h) == [x |-> px, y |-> py, width |-> w, height |-> h]

RangeInclusive(s, e) == [start |-> s, end |-> e]

\* What the host gives one Divider: range, step and layout.bounds().
\*   - a track as long as the range, away from the origin on x;
\*   - a range that does not start at 0, step 2, away from the origin on y;
\*   - a range whose extent is not a multiple of the step;
\*   - an inverted range;
\*   - a zero step and a negative step.
Geometries ==
    { [range |-> RangeInclusive(0, 4), step |->  1, bounds |-> Rect(1, 0, 4, 4)],
      [range |-> RangeInclusive(1, 5), step |->  2, bounds |-> Rect(0, 1, 4, 4)],
      [range |-> RangeInclusive(0, 2), step |->  3, bounds |-> Rect(1, 1, 4, 4)],
      [range |-> RangeInclusive(2, 0), step |->  1, bounds |-> Rect(0, 0, 4, 4)],
      [range |-> RangeInclusive(0, 4), step |->  0, bounds |-> Rect(0, 0, 4, 4)],
      [range |-> RangeInclusive(0, 4), step |-> -1, bounds |-> Rect(0, 0, 4, 4)] }

Directions == {"Horizontal", "Vertical"}

\* (handle_width, handle_height)
HandleSizes == { <<2, 1>> }

Indexes == {0}

\* iced::Length, as far as the Divider stores it.
Fill == << "Fill" >>

Fixed(n) == << "Fixed", n >>

\* mouse::Cursor
Unavailable == [kind |-> "Unavailable"]

Available(px, py) == [kind |-> "Available", x |-> px, y |-> py]

\* The cursor is absent, or on a horizontal or a vertical band of the grid.
Cursors ==
    {Unavailable}
    \cup { Available(a, c) : a \in Coords, c \in CrossCoords }
    \cup { Available(c, a) : a \in Coords, c \in CrossCoords }

\* The events on_event distinguishes; "Other" is any event of the last arm.
PressEvents == {"ButtonPressed", "FingerPressed"}

ReleaseEvents == {"ButtonReleased", "FingerLifted", "FingerLost"}

MoveEvents == {"CursorMoved", "FingerMoved"}

OtherEvents == {"Other"}

\* ------------------------------------------------------------------- state
VARIABLES
    index,              \* Divider.index
    value,              \* Divider.value
    range,              \* Divider.range
    handle_width,       \* Divider.handle_width
    handle_height,      \* Divider.handle_height
    step,               \* Divider.step
    on_release,         \* Divider.on_release is Some
    width,              \* Divider.width
    height,             \* Divider.height
    direction,          \* Divider.direction
    is_dragging,        \* State.is_dragging, kept in the tree
    bounds,             \* layout.bounds()
    call,               \* the last call and its arguments
    local_value,        \* on_event's local value, read on entry
    local_is_dragging,  \* on_event's local is_dragging, read on entry
    published,          \* the messages the last on_event gave to shell.publish
    status,             \* the event::Status the last on_event returned
    history,            \* the on_event calls of a recorded run, oldest first
    values,             \* multi-handle divider: the value of every handle
    active_index,       \* multi-handle divider: the handle addressed last
    include_last_handle \* multi-handle divider: the last handle takes part

vars == << index, value, range, handle_width, handle_height, step, on_release,
           width, height, direction, is_dragging, bounds, call, local_value,
           local_is_dragging, published, status, history, values,
           active_index, include_last_handle >>

\* The variables of the multi-handle divider; a Divider has no handles.
handles == << values, active_index, include_last_handle >>

NoHandles == values = << >> /\ active_index = 0 /\ include_last_handle = TRUE

config == << index, range, handle_width, handle_height, step, on_release,
             width, height, direction, bounds >>

\* The last call: Divider::new with its value argument, or on_event with its
\* event and cursor arguments.
CallNew(v) == [op |-> "new", value |-> v]

CallOnEvent(ev, cur) == [op |-> "on_event", event |-> ev, cursor |-> cur]

\* A builder call with its argument, and a layout pass with the bounds it
\* gives the widget.
CallBuilder(name, arg) == [op |-> name, arg |-> arg]

CallLayout(b) == [op |-> "layout", bounds |-> b]

\* The event and the cursor of the last call when it was on_event.
event == IF call.op = "on_event" THEN call.event ELSE "None"

cursor == IF call.op = "on_event" THEN call.cursor ELSE Unavailable

\* ----------------------------------------------------------------- helpers
Abs(a) == IF a < 0 THEN -a ELSE a

\* f32::round of the fraction n / d, d # 0: nearest integer, halves away from zero.
round(n, d) ==
    LET q == (2 * Abs(n) + Abs(d)) \div (2 * Abs(d))
    IN  IF (n < 0) = (d < 0) THEN q ELSE -q

\* f32::min
min(a, b) == IF a <= b THEN a ELSE b

\* The messages handed to shell.publish.
on_change(i, v) == << "on_change", i, v >>

ReleaseMessage == << "on_release" >>

\* ------------------------------------------------------------ construction
\* Divider::new with the second clamp left out.
new_value_no_upper(v, r) == IF v >= r.start THEN v ELSE r.start

\* The two clamps of Divider::new.
new_value(v, r) ==
    LET v1 == IF v >= r.start THEN v ELSE r.start
    IN  IF v1 <= r.end THEN v1 ELSE r.end

\* Divider::step: the step is stored as given.
with_step(s) == s

\* State::default()
DefaultState == FALSE

Init ==
    /\ index \in Indexes
    /\ \E g \in Geometries :
          range = g.range /\ step = with_step(g.step) /\ bounds = g.bounds
    /\ \E v \in ValueInputs : value = new_value(v, range) /\ call = CallNew(v)
    /\ \E hs \in HandleSizes : handle_width = hs[1] /\ handle_height = hs[2]
    /\ on_release \in BOOLEAN
    /\ width = Fill /\ height = Fill
    /\ direction \in Directions
    /\ is_dragging = DefaultState
    /\ local_value = value
    /\ local_is_dragging = is_dragging
    /\ published = << >>
    /\ status = "None"
    /\ history = << >>
    /\ NoHandles

\* ---------------------------------------------------------------- builders
\* The Divider as one record of its fields.
self ==
    [index |-> index, value |-> value, range |-> range,
     handle_width |-> handle_width, handle_height |-> handle_height,
     step |-> step, on_release |-> on_release, width |-> width,
     height |-> height, direction |-> direction]

\* The Divider is d, and becomes d.
Is(d) ==
    /\ index = d.index /\ value = d.value /\ range = d.range
    /\ handle_width = d.handle_width /\ handle_height = d.handle_height
    /\ step = d.step /\ on_release = d.on_release /\ width = d.width
    /\ height = d.height /\ direction = d.direction

Becomes(d) ==
    /\ index' = d.index /\ value' = d.value /\ range' = d.range
    /\ handle_width' = d.handle_width /\ handle_height' = d.handle_height
    /\ step' = d.step /\ on_release' = d.on_release /\ width' = d.width
    /\ height' = d.height /\ direction' = d.direction

\* Divider::new: the clamped value and the defaults.
Divider_new(i, v, r, hw, hh) ==
    [index |-> i, value |-> new_value(v, r), range |-> r,
     handle_width |-> hw, handle_height |-> hh,
     step |-> 1, on_release |-> FALSE, width |-> Fill, height |-> Fill,
     direction |-> "Horizontal"]

Divider_on_release(d) == [d EXCEPT !.on_release = TRUE]

Divider_width(d, w) == [d EXCEPT !.width = w]

Divider_height(d, h) == [d EXCEPT !.height = h]

\* Divider::step bringing the value down to a multiple of the new step.
Divider_step_snaps(d, s) ==
    [d EXCEPT !.step = with_step(s),
              !.value = IF s > 0 THEN (d.value \div s) * s ELSE d.value]

Divider_step(d, s) == [d EXCEPT !.step = with_step(s)]

Divider_direction(d, dir) == [d EXCEPT !.direction = dir]

\* ------------------------------------------------------------- tree state
\* A tag that tells Dividers of different values apart.
tag_of_value == << "State", value >>

\* Widget::tag: the type of the state, the same for every Divider.
tag == << "State" >>

\* Widget::state: the state of a widget new to the tree.
state == DefaultState

\* ------------------------------------------------------------------ locate
\* locate without the final min(end).
locate_axis_no_min(coord, origin, extent) ==
    IF coord <= origin THEN range.start
    ELSE IF coord >= origin + extent THEN range.end
    ELSE IF step = 0 THEN range.end
    ELSE round((coord - origin) * (range.end - range.start), extent * step) * step
         + range.start

\* locate without the test of the near edge.
locate_axis_no_near_edge(coord, origin, extent) ==
    IF coord >= origin + extent THEN range.end
    ELSE IF step = 0 THEN range.end
    ELSE LET steps == round((coord - origin) * (range.end - range.start),
                            extent * step)
             v     == steps * step + range.start
         IN  min(v, range.end)

\* locate without the quantization by step.
locate_axis_unquantized(coord, origin, extent) ==
    IF coord <= origin THEN range.start
    ELSE IF coord >= origin + extent THEN range.end
    ELSE min(round((coord - origin) * (range.end - range.start), extent)
             + range.start, range.end)

\* One arm of the locate closure: coord, origin and extent are
\* cursor_position.x, bounds.x, bounds.width (Horizontal) or
\* cursor_position.y, bounds.y, bounds.height (Vertical).
locate_axis(coord, origin, extent) ==
    IF coord <= origin THEN range.start
    ELSE IF coord >= origin + extent THEN range.end
    ELSE IF step = 0 THEN range.end
    ELSE LET steps == round((coord - origin) * (range.end - range.start),
                            extent * step)
             v     == steps * step + range.start
         IN  min(v, range.end)

\* locate measuring the cursor from the handle instead of the track origin.
locate_from_handle(cursor_position) ==
    IF direction = "Horizontal"
    THEN locate_axis(cursor_position.x, bounds.x + value, bounds.width)
    ELSE locate_axis(cursor_position.y, bounds.y + value, bounds.height)

\* locate taking the width of the bounds for the track in both directions.
locate_width_always(cursor_position) ==
    IF direction = "Horizontal"
    THEN locate_axis(cursor_position.x, bounds.x, bounds.width)
    ELSE locate_axis(cursor_position.y, bounds.y, bounds.width)

locate(cursor_position) ==
    IF direction = "Horizontal"
    THEN locate_axis(cursor_position.x, bounds.x, bounds.width)
    ELSE locate_axis(cursor_position.y, bounds.y, bounds.height)

\* ------------------------------------------------------------------ change
\* change publishing self.value as it is before the assignment.
change_publishes_old(new) ==
    IF Abs(value - new) > 0
    THEN [published |-> << on_change(index, value) >>, value |-> new]
    ELSE [published |-> << >>, value |-> value]

\* change without the epsilon test.
change_always(new) ==
    [published |-> << on_change(index, new) >>, value |-> new]

\* change without self.value = new_value.
change_no_store(new) ==
    IF Abs(value - new) > 0
    THEN [published |-> << on_change(index, new) >>, value |-> value]
    ELSE [published |-> << >>, value |-> value]

\* The change closure: the messages it publishes and the value it leaves.
\* Every value of the model is an integer, so two values differ by more
\* than f32::EPSILON exactly when they differ.
change(new) ==
    IF Abs(value - new) > 0
    THEN [published |-> << on_change(index, new) >>, value |-> new]
    ELSE [published |-> << >>, value |-> value]

\* ---------------------------------------------------------------- on_event
\* Rectangle::contains
contains(rect, p) ==
    /\ rect.x <= p.x /\ p.x < rect.x + rect.width
    /\ rect.y <= p.y /\ p.y < rect.y + rect.height

\* The handle rectangle left at the track origin.
handle_bounds_at_origin ==
    [x |-> bounds.x, y |-> bounds.y,
     width |-> handle_width, height |-> handle_height]

\* The handle rectangle moved along the track by the index, one handle width
\* for every divider before this one.
handle_bounds_by_index ==
    IF direction = "Horizontal"
    THEN [x |-> bounds.x + value + index * handle_width, y |-> bounds.y,
          width |-> handle_width, height |-> handle_height]
    ELSE [x |-> bounds.x, y |-> bounds.y + value + index * handle_height,
          width |-> handle_width, height |-> handle_height]

\* The rectangle the press arm tests the cursor against.
handle_bounds ==
    IF direction = "Horizontal"
    THEN [x |-> bounds.x + value, y |-> bounds.y,
          width |-> handle_width, height |-> handle_height]
    ELSE [x |-> bounds.x, y |-> bounds.y + value,
          width |-> handle_width, height |-> handle_height]

\* cursor.position_over(rect) is Some
position_over(cur, rect) == cur.kind = "Available" /\ contains(rect, cur)

Ignored == [value |-> value, is_dragging |-> is_dragging,
            published |-> << >>, status |-> "Ignored"]

\* The press arm taking a press in state Idle only.
on_press_idle_only(cur) ==
    IF ~is_dragging /\ position_over(cur, handle_bounds)
    THEN LET c == change(locate(cur))
         IN  [value |-> c.value, is_dragging |-> TRUE,
              published |-> c.published, status |-> "Captured"]
    ELSE Ignored

\* The press arm with state.is_dragging = true after the hit test instead of
\* inside it.
on_press_always_drags(cur) ==
    IF position_over(cur, handle_bounds)
    THEN LET c == change(locate(cur))
         IN  [value |-> c.value, is_dragging |-> TRUE,
              published |-> c.published, status |-> "Captured"]
    ELSE [value |-> value, is_dragging |-> TRUE,
          published |-> << >>, status |-> "Ignored"]

on_press(cur) ==
    IF position_over(cur, handle_bounds)
    THEN LET c == change(locate(cur))
         IN  [value |-> c.value, is_dragging |-> TRUE,
              published |-> c.published, status |-> "Captured"]
    ELSE Ignored

\* The release arm without state.is_dragging = false.
on_released_keeps_dragging ==
    IF is_dragging
    THEN [value |-> value, is_dragging |-> TRUE,
          published |-> IF on_release THEN << ReleaseMessage >> ELSE << >>,
          status |-> "Captured"]
    ELSE Ignored

\* The release arm publishing before it tests is_dragging.
on_released_publishes_first ==
    [value |-> value, is_dragging |-> FALSE,
     published |-> IF on_release THEN << ReleaseMessage >> ELSE << >>,
     status |-> IF is_dragging THEN "Captured" ELSE "Ignored"]

on_released ==
    IF is_dragging
    THEN [value |-> value, is_dragging |-> FALSE,
          published |-> IF on_release THEN << ReleaseMessage >> ELSE << >>,
          status |-> "Captured"]
    ELSE Ignored

\* The move arm taking a move without a cursor position for the loss of the
\* pointer: it ends the drag and publishes the release message.
on_moved_lost_cursor_releases(cur) ==
    IF is_dragging
    THEN IF cur.kind = "Available"
         THEN LET c == change(locate(cur))
              IN  [value |-> c.value, is_dragging |-> is_dragging,
                   published |-> c.published, status |-> "Captured"]
         ELSE [value |-> value, is_dragging |-> FALSE,
               published |-> IF on_release THEN << ReleaseMessage >> ELSE << >>,
               status |-> "Captured"]
    ELSE Ignored

\* The move arm returning Captured only when the cursor has a position.
on_moved_needs_cursor(cur) ==
    IF is_dragging /\ cur.kind = "Available"
    THEN LET c == change(locate(cur))
         IN  [value |-> c.value, is_dragging |-> is_dragging,
              published |-> c.published, status |-> "Captured"]
    ELSE Ignored

\* The move arm capturing only the moves that change the value.
on_moved_unconsumed(cur) ==
    IF is_dragging
    THEN LET c == IF cur.kind = "Available" THEN change(locate(cur))
                  ELSE [published |-> << >>, value |-> value]
         IN  [value |-> c.value, is_dragging |-> is_dragging,
              published |-> c.published,
              status |-> IF c.published = << >> THEN "Ignored" ELSE "Captured"]
    ELSE Ignored

\* The move arm without the is_dragging test.
on_moved_unguarded(cur) ==
    LET c == IF cur.kind = "Available" THEN change(locate(cur))
             ELSE [published |-> << >>, value |-> value]
    IN  [value |-> c.value, is_dragging |-> is_dragging,
         published |-> c.published, status |-> "Captured"]

on_moved(cur) ==
    IF is_dragging
    THEN LET c == IF cur.kind = "Available" THEN change(locate(cur))
                  ELSE [published |-> << >>, value |-> value]
         IN  [value |-> c.value, is_dragging |-> is_dragging,
              published |-> c.published, status |-> "Captured"]
    ELSE Ignored

\* on_event ending a drag only when the release comes with a cursor position.
on_event_release_needs_cursor(ev, cur) ==
    IF ev \in {"ButtonPressed", "FingerPressed"} THEN on_press(cur)
    ELSE IF ev \in {"ButtonReleased", "FingerLifted", "FingerLost"}
    THEN IF cur.kind = "Available" THEN on_released ELSE Ignored
    ELSE IF ev \in {"CursorMoved", "FingerMoved"} THEN on_moved(cur)
    ELSE Ignored

\* on_event with the press arm taking the press of any mouse button.
on_event_any_button(ev, cur) ==
    IF ev \in {"ButtonPressed", "FingerPressed", "Other"} THEN on_press(cur)
    ELSE IF ev \in {"ButtonReleased", "FingerLifted", "FingerLost"} THEN on_released
    ELSE IF ev \in {"CursorMoved", "FingerMoved"} THEN on_moved(cur)
    ELSE Ignored

\* on_event with FingerLost left to the last arm.
on_event_lost_unhandled(ev, cur) ==
    IF ev \in {"ButtonPressed", "FingerPressed"} THEN on_press(cur)
    ELSE IF ev \in {"ButtonReleased", "FingerLifted"} THEN on_released
    ELSE IF ev \in {"CursorMoved", "FingerMoved"} THEN on_moved(cur)
    ELSE Ignored

\* The whole handler: what on_event leaves and returns for one event.
on_event(ev, cur) ==
    IF ev \in {"ButtonPressed", "FingerPressed"} THEN on_press(cur)
    ELSE IF ev \in {"ButtonReleased", "FingerLifted", "FingerLost"} THEN on_released
    ELSE IF ev \in {"CursorMoved", "FingerMoved"} THEN on_moved(cur)
    ELSE Ignored

\* -------------------------------------------------------------------- draw
\* cursor.is_over(rect)
is_over(cur, rect) == cur.kind = "Available" /\ contains(rect, cur)

\* draw resolving Hovered before Dragged.
draw_status_hover_first(cur) ==
    IF is_over(cur, bounds) THEN "Hovered"
    ELSE IF is_dragging THEN "Dragged"
    ELSE "Active"

\* The Status draw hands to the style function.
draw_status(cur) ==
    IF is_dragging THEN "Dragged"
    ELSE IF is_over(cur, bounds) THEN "Hovered"
    ELSE "Active"

\* An f32 quotient, kept as a fraction with a positive denominator.
Frac(n, d) == [num |-> n, den |-> d]

FracEq(a, b) == a.num * b.den = b.num * a.den

\* The offset of the handle along the drag axis that draw computes.
draw_offset ==
    IF range.start >= range.end THEN Frac(0, 1)
    ELSE IF direction = "Horizontal"
    THEN Frac(bounds.width * (value - range.start), range.end - range.start)
    ELSE Frac((bounds.height - handle_height) * (value - range.start),
              range.end - range.start)

\* The bounds of the quad draw hands to renderer.fill_quad.
draw_quad ==
    IF direction = "Horizontal"
    THEN [x |-> Frac(bounds.x * draw_offset.den + draw_offset.num, draw_offset.den),
          y |-> Frac(bounds.y, 1),
          width |-> handle_width, height |-> handle_height]
    ELSE [x |-> Frac(bounds.x, 1),
          y |-> Frac(bounds.y * draw_offset.den + draw_offset.num, draw_offset.den),
          width |-> handle_width, height |-> handle_height]

\* ------------------------------------------------------- mouse_interaction
\* The rectangle mouse_interaction tests the cursor against.
interaction_handle_bounds ==
    IF direction = "Horizontal"
    THEN [x |-> bounds.x + value, y |-> bounds.y,
          width |-> handle_width, height |-> handle_height]
    ELSE [x |-> bounds.x, y |-> bounds.y + value,
          width |-> handle_width, height |-> handle_height]

\* mouse_interaction without state.is_dragging.
mouse_interaction_hover_only(cur) ==
    IF is_over(cur, interaction_handle_bounds)
    THEN IF direction = "Horizontal" THEN "ResizingHorizontally"
         ELSE "ResizingVertically"
    ELSE "None"

\* The mouse::Interaction the widget reports; "None" is
\* mouse::Interaction::default().
mouse_interaction(cur) ==
    IF is_dragging \/ is_over(cur, interaction_handle_bounds)
    THEN IF direction = "Horizontal" THEN "ResizingHorizontally"
         ELSE "ResizingVertically"
    ELSE "None"

\* --------------------------------------------------------------- actions
\* One delivery of an event to the widget.
Deliver(ev, cur) ==
    LET r == on_event(ev, cur)
    IN  /\ call' = CallOnEvent(ev, cur)
        /\ local_value' = value
        /\ local_is_dragging' = is_dragging
        /\ value' = r.value
        /\ is_dragging' = r.is_dragging
        /\ published' = r.published
        /\ status' = r.status
        /\ UNCHANGED << config, handles >>

Press ==
    \E ev \in PressEvents, cur \in Cursors : Deliver(ev, cur) /\ UNCHANGED history

Release ==
    \E ev \in ReleaseEvents, cur \in Cursors : Deliver(ev, cur) /\ UNCHANGED history

Move ==
    \E ev \in MoveEvents, cur \in Cursors : Deliver(ev, cur) /\ UNCHANGED history

Other ==
    \E ev \in OtherEvents, cur \in Cursors : Deliver(ev, cur) /\ UNCHANGED history

\* The host's view builds the Divider anew from the value it holds; the drag
\* state stays in the tree.
Rebuild ==
    \E v \in ValueInputs :
        /\ value' = new_value(v, range)
        /\ call' = CallNew(v)
        /\ local_value' = value'
        /\ local_is_dragging' = is_dragging
        /\ published' = << >>
        /\ status' = "None"
        /\ UNCHANGED << config, is_dragging, history, handles >>

Next == Press \/ Release \/ Move \/ Other \/ Rebuild

Spec == Init /\ [][Next]_vars

\* -------------------------------------------------------------- recorded runs
\* A run of on_event calls on one Divider, every call recorded with what it
\* found, published, returned and left.  The Divider has the first geometry,
\* laid out horizontally; the cursor is absent or on the row of the handle.
RunGeometry ==
    [range |-> RangeInclusive(0, 4), step |-> 1, bounds |-> Rect(1, 0, 4, 4)]

RunValues == {1, 3}

RunCursors ==
    {Unavailable, Available(2, 0), Available(3, 0), Available(5, 0)}

RunInit ==
    /\ index \in Indexes
    /\ range = RunGeometry.range /\ step = with_step(RunGeometry.step)
    /\ bounds = RunGeometry.bounds
    /\ \E v \in RunValues : value = new_value(v, range) /\ call = CallNew(v)
    /\ \E hs \in HandleSizes : handle_width = hs[1] /\ handle_height = hs[2]
    /\ on_release \in BOOLEAN
    /\ width = Fill /\ height = Fill
    /\ direction = "Horizontal"
    /\ is_dragging = DefaultState
    /\ local_value = value
    /\ local_is_dragging = is_dragging
    /\ published = << >>
    /\ status = "None"
    /\ history = << >>
    /\ NoHandles

\* One recorded delivery.
Record(ev, cur) ==
    /\ Len(history) < MaxRun
    /\ Deliver(ev, cur)
    /\ history' = Append(history,
                         [event |-> ev, cursor |-> cur,
                          was_dragging |-> is_dragging, old_value |-> value,
                          published |-> published', status |-> status',
                          is_dragging |-> is_dragging', value |-> value'])

RunPress == \E cur \in RunCursors : Record("ButtonPressed", cur)

RunMove == \E cur \in RunCursors : Record("CursorMoved", cur)

RunRelease == \E cur \in RunCursors : Record("ButtonReleased", cur)

RunLost == \E cur \in RunCursors : Record("FingerLost", cur)

RunNext == RunPress \/ RunMove \/ RunRelease \/ RunLost

SpecRun == RunInit /\ [][RunNext]_vars

TypeOK ==
    /\ value \in Int
    /\ is_dragging \in BOOLEAN
    /\ status \in {"None", "Captured", "Ignored"}
    /\ Len(published) <= 1

\* ------------------------------------------------------------------ scenarios
\* Recorded runs on Dividers of the size of the examples: a track of 400 for
\* the range 0..=400 with step 1, a track of 100 for the range 0..=100 with
\* step 10, and a track of 100 for a range that starts at 10, with step 20.
\* The handle is 4 by 21 and stands at the value 100; on_release is set.
Scenarios ==
    { [range |-> RangeInclusive(0, 400),  step |-> 1,  bounds |-> Rect(8, 2, 400, 400)],
      [range |-> RangeInclusive(0, 100),  step |-> 10, bounds |-> Rect(8, 2, 100, 100)],
      [range |-> RangeInclusive(10, 110), step |-> 20, bounds |-> Rect(8, 2, 100, 100)] }

\* Cursor coordinates along the drag axis, counted from the track origin.
ScenarioCoords == {-10, 24, 100, 150}

\* The cursor at the coordinate a of the track, on the first row (or column)
\* of the bounds.
OnTrack(a) ==
    IF direction = "Horizontal"
    THEN Available(bounds.x + a, bounds.y)
    ELSE Available(bounds.x, bounds.y + a)

ScenarioCursors == { OnTrack(a) : a \in ScenarioCoords }

ScenarioInit ==
    /\ index \in Indexes
    /\ \E g \in Scenarios :
          range = g.range /\ step = with_step(g.step) /\ bounds = g.bounds
    /\ value = new_value(100, range) /\ call = CallNew(100)
    /\ handle_width = 4 /\ handle_height = 21
    /\ on_release = TRUE
    /\ width = Fill /\ height = Fill
    /\ direction \in Directions
    /\ is_dragging = DefaultState
    /\ local_value = value
    /\ local_is_dragging = is_dragging
    /\ published = << >>
    /\ status = "None"
    /\ history = << >>
    /\ NoHandles

ScenarioPress == \E cur \in ScenarioCursors : Record("ButtonPressed", cur)

ScenarioMove == \E cur \in ScenarioCursors : Record("CursorMoved", cur)

ScenarioRelease == \E cur \in ScenarioCursors : Record("ButtonReleased", cur)

ScenarioNext == ScenarioPress \/ ScenarioMove \/ ScenarioRelease

SpecScenario == ScenarioInit /\ [][ScenarioNext]_vars

\* ------------------------------------------------------------ construction
\* The Divider between Divider::new and the end of the builder chain.
StepInputs == {-1, 0, 1, 2, 3}

Lengths == {Fill, Fixed(4), Fixed(21)}

BuildInit ==
    /\ \E i \in Indexes, v \in ValueInputs, g \in Geometries, hs \in HandleSizes :
          /\ Is(Divider_new(i, v, g.range, hs[1], hs[2]))
          /\ call = CallNew(v)
          /\ bounds = g.bounds
    /\ is_dragging = state
    /\ local_value = value
    /\ local_is_dragging = is_dragging
    /\ published = << >>
    /\ status = "None"
    /\ history = << >>
    /\ NoHandles

Built(d, name, arg) ==
    /\ Becomes(d)
    /\ call' = CallBuilder(name, arg)
    /\ UNCHANGED << is_dragging, bounds, local_value, local_is_dragging,
                    published, status, history, handles >>

BuildOnRelease == Built(Divider_on_release(self), "on_release", << >>)

BuildWidth == \E w \in Lengths : Built(Divider_width(self, w), "width", w)

BuildHeight == \E h \in Lengths : Built(Divider_height(self, h), "height", h)

BuildStep == \E s \in StepInputs : Built(Divider_step(self, s), "step", s)

BuildDirection ==
    \E dir \in Directions : Built(Divider_direction(self, dir), "direction", dir)

BuildNext ==
    BuildOnRelease \/ BuildWidth \/ BuildHeight \/ BuildStep \/ BuildDirection

SpecBuild == BuildInit /\ [][BuildNext]_vars

\* -------------------------------------------------------------------- host
\* A Divider in a host that builds it anew in every view, with whatever
\* index, value, range, step and handle size it holds then, and that lays it
\* out in bounds of its choice.  The events are a press, a move and a
\* release of the mouse, with the cursor absent or on the row or the column
\* of coordinate 1.
HostIndexes == {0, 1}

HostValues == {0, 2, 5}

HostRanges ==
    { [range |-> RangeInclusive(0, 4), step |-> 1],
      [range |-> RangeInclusive(1, 5), step |-> 2] }

HostHandleSizes == { <<2, 1>>, <<1, 2>> }

HostBounds == { Rect(1, 1, 4, 4), Rect(1, 0, 4, 2), Rect(0, 1, 2, 4) }

HostEvents == {"ButtonPressed", "CursorMoved", "ButtonReleased"}

HostCursors ==
    {Unavailable}
    \cup { Available(a, 1) : a \in Coords }
    \cup { Available(1, a) : a \in Coords }

\* The Divider the host's view builds: new, on_release, step, direction.
HostDivider(i, v, g, hs, dir) ==
    Divider_direction(
        Divider_step(
            Divider_on_release(Divider_new(i, v, g.range, hs[1], hs[2])),
            g.step),
        dir)

HostInit ==
    /\ \E i \in HostIndexes, v \in HostValues, g \in HostRanges,
          hs \in HostHandleSizes, dir \in Directions :
          /\ Is(HostDivider(i, v, g, hs, dir))
          /\ call = CallNew(v)
    /\ bounds \in HostBounds
    /\ is_dragging = state
    /\ local_value = value
    /\ local_is_dragging = is_dragging
    /\ published = << >>
    /\ status = "None"
    /\ history = << >>
    /\ NoHandles

HostPress ==
    \E cur \in HostCursors : Deliver("ButtonPressed", cur) /\ UNCHANGED history

HostMove ==
    \E cur \in HostCursors : Deliver("CursorMoved", cur) /\ UNCHANGED history

HostRelease ==
    \E cur \in HostCursors : Deliver("ButtonReleased", cur) /\ UNCHANGED history

\* The view builds the Divider anew; the tree keeps the state of a widget
\* whose tag is the tag it had, and takes a fresh state otherwise.
Reconstruct ==
    \E i \in HostIndexes, v \in HostValues, g \in HostRanges,
       hs \in HostHandleSizes :
        /\ Becomes(HostDivider(i, v, g, hs, direction))
        /\ is_dragging' = IF tag' = tag THEN is_dragging ELSE state'
        /\ call' = CallNew(v)
        /\ local_value' = value'
        /\ local_is_dragging' = is_dragging'
        /\ published' = << >>
        /\ status' = "None"
        /\ UNCHANGED << bounds, history, handles >>

\* A layout pass gives the widget new bounds.
Relayout ==
    \E b \in HostBounds :
        /\ bounds' = b
        /\ call' = CallLayout(b)
        /\ UNCHANGED << index, value, range, handle_width, handle_height, step,
                        on_release, width, height, direction, is_dragging,
                        local_value, local_is_dragging, published, status,
                        history, handles >>

HostNext == HostPress \/ HostMove \/ HostRelease \/ Reconstruct \/ Relayout

SpecHost == HostInit /\ [][HostNext]_vars

\* ------------------------------------------------------ multi-handle divider
\* The multi-handle divider the examples build with divider_horizontal: a
\* row of handles on one track, each at its own value, with one drag state
\* for all of them.  Handles are counted from 0.
handle_count == Len(values)

handle_value(i) == values[i + 1]

\* Every handle takes part in hit testing.
participating_all == 0 .. handle_count - 1

\* The handles that take part in hit testing: all of them, or all but the
\* last when the last handle is excluded.
participating ==
    IF include_last_handle THEN 0 .. handle_count - 1
    ELSE 0 .. handle_count - 2

\* The rectangle of handle i: at trackOrigin + its value, with the handle
\* extents.
multi_handle_bounds(i) ==
    IF direction = "Horizontal"
    THEN [x |-> bounds.x + handle_value(i), y |-> bounds.y,
          width |-> handle_width, height |-> handle_height]
    ELSE [x |-> bounds.x, y |-> bounds.y + handle_value(i),
          width |-> handle_width, height |-> handle_height]

\* The participating handles under the cursor.
multi_hit(cur) ==
    { i \in participating : position_over(cur, multi_handle_bounds(i)) }

\* The change closure for handle i.
multi_change(i, new) ==
    IF Abs(handle_value(i) - new) > 0
    THEN [published |-> << on_change(i, new) >>,
          values |-> [values EXCEPT ![i + 1] = new]]
    ELSE [published |-> << >>, values |-> values]

MultiIgnored ==
    [values |-> values, active_index |-> active_index,
     is_dragging |-> is_dragging, published |-> << >>, status |-> "Ignored"]

\* A press that takes whatever handle is under the cursor, dragging or not.
multi_on_press_any(cur) ==
    IF multi_hit(cur) = {} THEN MultiIgnored
    ELSE LET i == CHOOSE j \in multi_hit(cur) : \A k \in multi_hit(cur) : j <= k
             c == multi_change(i, locate(cur))
         IN  [values |-> c.values, active_index |-> i, is_dragging |-> TRUE,
              published |-> c.published, status |-> "Captured"]

\* A press: while a handle is dragged only that handle can take it;
\* otherwise the first participating handle under the cursor takes it and
\* becomes the active one.
multi_on_press(cur) ==
    LET hit == IF is_dragging THEN multi_hit(cur) \cap {active_index}
               ELSE multi_hit(cur)
    IN  IF hit = {} THEN MultiIgnored
        ELSE LET i == CHOOSE j \in hit : \A k \in hit : j <= k
                 c == multi_change(i, locate(cur))
             IN  [values |-> c.values, active_index |-> i, is_dragging |-> TRUE,
                  published |-> c.published, status |-> "Captured"]

multi_on_released ==
    IF is_dragging
    THEN [values |-> values, active_index |-> active_index,
          is_dragging |-> FALSE,
          published |-> IF on_release THEN << ReleaseMessage >> ELSE << >>,
          status |-> "Captured"]
    ELSE MultiIgnored

multi_on_moved(cur) ==
    IF is_dragging
    THEN LET c == IF cur.kind = "Available"
                  THEN multi_change(active_index, locate(cur))
                  ELSE [published |-> << >>, values |-> values]
         IN  [values |-> c.values, active_index |-> active_index,
              is_dragging |-> is_dragging, published |-> c.published,
              status |-> "Captured"]
    ELSE MultiIgnored

multi_on_event(ev, cur) ==
    IF ev \in PressEvents THEN multi_on_press(cur)
    ELSE IF ev \in ReleaseEvents THEN multi_on_released
    ELSE IF ev \in MoveEvents THEN multi_on_moved(cur)
    ELSE MultiIgnored

\* Three handles on a horizontal track of 4 for the range 0..=4, step 1; the
\* handles are 1 wide, so that they overlap only when their values agree.
MultiValues == { << 0, 2, 4 >>, << 1, 1, 3 >> }

MultiCursors == {Unavailable} \cup { Available(a, 0) : a \in Coords }

MultiInit ==
    /\ values \in MultiValues
    /\ active_index = 0
    /\ include_last_handle \in BOOLEAN
    /\ index = 0 /\ value = 0
    /\ range = RangeInclusive(0, 4) /\ step = 1
    /\ bounds = Rect(1, 0, 4, 4)
    /\ handle_width = 1 /\ handle_height = 1
    /\ on_release \in BOOLEAN
    /\ width = Fill /\ height = Fill
    /\ direction = "Horizontal"
    /\ is_dragging = DefaultState
    /\ call = CallNew(0)
    /\ local_value = value
    /\ local_is_dragging = is_dragging
    /\ published = << >>
    /\ status = "None"
    /\ history = << >>

MultiDeliver(ev, cur) ==
    LET r == multi_on_event(ev, cur)
    IN  /\ call' = CallOnEvent(ev, cur)
        /\ values' = r.values
        /\ active_index' = r.active_index
        /\ is_dragging' = r.is_dragging
        /\ local_is_dragging' = is_dragging
        /\ published' = r.published
        /\ status' = r.status
        /\ UNCHANGED << config, value, local_value, include_last_handle,
                        history >>

MultiPress == \E cur \in MultiCursors : MultiDeliver("ButtonPressed", cur)

MultiMove == \E cur \in MultiCursors : MultiDeliver("CursorMoved", cur)

MultiRelease == \E cur \in MultiCursors : MultiDeliver("ButtonReleased", cur)

MultiNext == MultiPress \/ MultiMove \/ MultiRelease

SpecMulti == MultiInit /\ [][MultiNext]_vars

\* ---------------------------------------------------------------- liveness
\* Runs of any length on the Divider of the recorded runs, nothing recorded.
\* The event source delivers a release, a lifted finger or a lost finger
\* for every press sooner or later: a drag that could be ended for ever is
\* ended.
LivePress ==
    \E ev \in PressEvents, cur \in RunCursors :
        Deliver(ev, cur) /\ UNCHANGED history

LiveMove ==
    \E ev \in MoveEvents, cur \in RunCursors :
        Deliver(ev, cur) /\ UNCHANGED history

LiveRelease ==
    \E ev \in ReleaseEvents, cur \in RunCursors :
        Deliver(ev, cur) /\ UNCHANGED history

LiveNext == LivePress \/ LiveMove \/ LiveRelease

SpecLive == RunInit /\ [][LiveNext]_vars /\ WF_vars(LiveRelease)

\* ================================================================== claims
\* The values carried by the change notifications of the last on_event.
ChangeValues == { published[i][3] : i \in { j \in 1 .. Len(published) : published[j][1] = "on_change" } }

\* The cursor is inside the rectangle of the given size at trackOrigin + v on
\* the drag axis and at the origin of the bounds on the other axis.
OverHandleAt(v, cur) ==
    /\ cur.kind = "Available"
    /\ IF direction = "Horizontal"
       THEN /\ bounds.x + v <= cur.x /\ cur.x < bounds.x + v + handle_width
            /\ bounds.y <= cur.y     /\ cur.y < bounds.y + handle_height
       ELSE /\ bounds.x <= cur.x     /\ cur.x < bounds.x + handle_width
            /\ bounds.y + v <= cur.y /\ cur.y < bounds.y + v + handle_height

\* The coordinate of an available cursor on the drag axis, and the track.
DragCoord(cur) == IF direction = "Horizontal" THEN cur.x ELSE cur.y

TrackOrigin == IF direction = "Horizontal" THEN bounds.x ELSE bounds.y

TrackExtent == IF direction = "Horizontal" THEN bounds.width ELSE bounds.height

InsideTrack(cur) ==
    /\ cur.kind = "Available"
    /\ TrackOrigin < DragCoord(cur) /\ DragCoord(cur) < TrackOrigin + TrackExtent

\* The last on_event applied the change closure to the located value: it
\* published the located value and stored it when it differs from the value
\* on entry, and published nothing and kept the value otherwise.
AppliedChange ==
    IF Abs(locate(cursor) - local_value) > 0
    THEN published = << on_change(index, locate(cursor)) >> /\ value = locate(cursor)
    ELSE published = << >> /\ value = local_value

\* C1: with range.start <= range.end and step > 0, the stored value and every
\* value carried by a change notification lie in [range.start, range.end],
\* after construction and after every event.
C1_ClampInvariant ==
    (range.start <= range.end /\ step > 0) =>
        /\ range.start <= value /\ value <= range.end
        /\ \A v \in ChangeValues : range.start <= v /\ v <= range.end

\* A move inside the track whose rounded step count lands past range.end:
\* the notification carries range.end.
C1_Witness ==
    /\ range.start <= range.end /\ step > 0
    /\ event \in MoveEvents /\ local_is_dragging
    /\ InsideTrack(cursor)
    /\ published = << on_change(index, range.end) >>
    /\ locate_axis_no_min(DragCoord(cursor), TrackOrigin, TrackExtent) > range.end

\* C2: with range.start <= range.end, Divider::new stores the given value
\* when it lies in the range, range.start when it is below and range.end
\* when it is above.
C2_ConstructionClamps ==
    (call.op = "new" /\ range.start <= range.end) =>
        value = IF call.value < range.start THEN range.start
                ELSE IF call.value > range.end THEN range.end
                ELSE call.value

C2_Witness ==
    /\ call.op = "new" /\ range.start <= range.end
    /\ call.value > range.end /\ value = range.end

\* C3: in state Idle a press is captured exactly when the cursor is inside
\* the handle rectangle at trackOrigin + value; when captured the state is
\* Dragging and the change closure was applied to locate(cursor).
C3_PressTransition ==
    (event \in PressEvents /\ ~local_is_dragging) =>
        /\ (status = "Captured") <=> OverHandleAt(local_value, cursor)
        /\ (status = "Captured") => (is_dragging /\ AppliedChange)

\* A press on the handle, away from the track origin, that moved the value.
C3_Witness ==
    /\ event \in PressEvents /\ ~local_is_dragging
    /\ local_value > 0
    /\ OverHandleAt(local_value, cursor)
    /\ status = "Captured" /\ is_dragging
    /\ published = << on_change(index, value) >> /\ value # local_value

\* C4: a move received while Dragging is captured, leaves the state Dragging,
\* and publishes a change notification and stores the located value exactly
\* when the cursor is available and the located value differs from the
\* stored one.
C4_MoveWhileDragging ==
    (event \in MoveEvents /\ local_is_dragging) =>
        /\ status = "Captured"
        /\ is_dragging
        /\ IF cursor.kind = "Available"
           THEN AppliedChange
           ELSE published = << >> /\ value = local_value

\* A move while Dragging that locates the value already stored.
C4_Witness ==
    /\ event \in MoveEvents /\ local_is_dragging
    /\ cursor.kind = "Available" /\ locate(cursor) = local_value
    /\ status = "Captured" /\ published = << >>

\* C5: a release, finger-lifted or finger-lost event received while Dragging
\* sets the state to Idle, is captured, publishes the release message once
\* when on_release is set and nothing otherwise, and leaves the value.
C5_ReleaseTransition ==
    (event \in ReleaseEvents /\ local_is_dragging) =>
        /\ ~is_dragging
        /\ status = "Captured"
        /\ published = IF on_release THEN << ReleaseMessage >> ELSE << >>
        /\ value = local_value

C5_Witness ==
    /\ event = "ButtonReleased" /\ local_is_dragging /\ on_release
    /\ ~is_dragging /\ published = << ReleaseMessage >>

\* C6: FingerLost while Dragging returns the state to Idle and publishes the
\* release message once when on_release is set; a second FingerLost right
\* after it publishes nothing, is ignored and leaves the state Idle.
C6_PointerLostTermination ==
    (event = "FingerLost" /\ local_is_dragging) =>
        /\ ~is_dragging
        /\ published = IF on_release THEN << ReleaseMessage >> ELSE << >>
        /\ \A cur \in Cursors :
               LET second == on_event("FingerLost", cur)
               IN  /\ second.published = << >>
                   /\ second.status = "Ignored"
                   /\ ~second.is_dragging

C6_Witness ==
    /\ event = "FingerLost" /\ local_is_dragging /\ on_release
    /\ ~is_dragging /\ published = << ReleaseMessage >>

\* C7: in every reachable state FingerLost has the effect of a left-button
\* release: the same drag state, value, messages and status.
C7_PointerLostIsRelease ==
    \A cur \in Cursors :
        on_event("FingerLost", cur) = on_event("ButtonReleased", cur)

\* A Dragging state with on_release set, reached by a press, in which the
\* release publishes the message and returns to Idle.
C7_Witness ==
    /\ event \in PressEvents /\ is_dragging /\ on_release
    /\ on_event("ButtonReleased", cursor).published = << ReleaseMessage >>
    /\ ~on_event("FingerLost", cursor).is_dragging

\* C8: a press whose cursor is outside the handle rectangle, or unavailable,
\* is ignored, publishes nothing and leaves the drag state and the value, in
\* either drag state.
C8_PressPassThrough ==
    (event \in PressEvents /\ ~OverHandleAt(local_value, cursor)) =>
        /\ status = "Ignored"
        /\ published = << >>
        /\ is_dragging = local_is_dragging
        /\ value = local_value

\* A press while Dragging with the cursor just past the far edge of the
\* handle rectangle.
C8_Witness ==
    /\ event \in PressEvents /\ local_is_dragging
    /\ cursor.kind = "Available"
    /\ DragCoord(cursor) = TrackOrigin + local_value + (IF direction = "Horizontal" THEN handle_width ELSE handle_height)
    /\ status = "Ignored" /\ is_dragging

\* C9: in state Idle every move, release, finger-lifted and finger-lost event
\* is ignored, publishes nothing and leaves the state Idle and the value,
\* wherever the cursor is.
C9_IdleIgnores ==
    (event \in MoveEvents \cup ReleaseEvents /\ ~local_is_dragging) =>
        /\ status = "Ignored"
        /\ published = << >>
        /\ ~is_dragging
        /\ value = local_value

\* A move in state Idle with the cursor over the handle, at a place that
\* locates another value.
C9_Witness ==
    /\ event \in MoveEvents /\ ~local_is_dragging
    /\ OverHandleAt(local_value, cursor)
    /\ locate(cursor) # local_value
    /\ status = "Ignored" /\ value = local_value

\* C10: a change notification is published only by an event that located a
\* value differing from the stored one; the value it carries is the located
\* value and differs from the value stored before the event.
C10_ChangeSuppression ==
    \A v \in ChangeValues :
        /\ cursor.kind = "Available"
        /\ v = locate(cursor)
        /\ Abs(v - local_value) > 0

\* A press on the handle that locates the value already stored: captured,
\* nothing published.
C10_Witness ==
    /\ event \in PressEvents /\ status = "Captured"
    /\ locate(cursor) = local_value
    /\ published = << >> /\ value = local_value

\* C11: while Dragging, two consecutive moves whose cursors locate the same
\* value, other than the value before the first move, publish one change
\* notification in total: the first move publishes it, the second nothing.
C11_NoOpSuppression ==
    \A i \in 1 .. Len(history) - 1 :
        LET a == history[i]
            b == history[i + 1]
        IN  ( /\ a.event \in MoveEvents /\ b.event \in MoveEvents
              /\ a.was_dragging
              /\ a.cursor.kind = "Available" /\ b.cursor.kind = "Available"
              /\ locate(a.cursor) = locate(b.cursor)
              /\ locate(a.cursor) # a.old_value )
            => /\ a.published = << on_change(index, locate(a.cursor)) >>
               /\ b.published = << >>
               /\ Len(a.published) + Len(b.published) = 1

\* A press followed by two moves to the same place, away from the value.
C11_Witness ==
    /\ Len(history) = 3
    /\ history[1].event \in PressEvents /\ history[1].status = "Captured"
    /\ history[2].event \in MoveEvents /\ history[3].event \in MoveEvents
    /\ history[2].cursor.kind = "Available"
    /\ history[3].cursor = history[2].cursor
    /\ locate(history[2].cursor) # history[2].old_value
    /\ history[2].published # << >> /\ history[3].published = << >>

\* The number of release messages in a sequence of messages, and in a run.
ReleasesIn(msgs) == Cardinality({ j \in 1 .. Len(msgs) : msgs[j] = ReleaseMessage })

RECURSIVE ReleaseCount(_)
ReleaseCount(h) ==
    IF h = << >> THEN 0
    ELSE ReleasesIn(h[Len(h)].published) + ReleaseCount(SubSeq(h, 1, Len(h) - 1))

\* The calls of the run that took the state from Dragging to Idle.
DragEnds == { i \in 1 .. Len(history) :
                history[i].was_dragging /\ ~history[i].is_dragging }

\* C12: with on_release set, the release messages published over a run are
\* as many as its Dragging-to-Idle transitions, and no press or move
\* publishes the release message.
C12_ReleaseOncePerGesture ==
    on_release =>
        /\ ReleaseCount(history) = Cardinality(DragEnds)
        /\ \A i \in 1 .. Len(history) :
               history[i].event \in PressEvents \cup MoveEvents
                   => ReleasesIn(history[i].published) = 0

\* Two gestures without a move: press, release, press, lost.
C12_Witness ==
    /\ on_release /\ Len(history) = 4
    /\ history[1].event \in PressEvents /\ history[1].is_dragging
    /\ history[2].event \in ReleaseEvents /\ ~history[2].is_dragging
    /\ history[3].event \in PressEvents /\ history[3].is_dragging
    /\ history[4].event = "FingerLost" /\ ~history[4].is_dragging
    /\ ReleaseCount(history) = 2

\* The last on_event ran locate on its cursor: a captured press, or a move
\* while Dragging with the cursor available.  The change closure then left
\* the located value in self.value.
AppliedLocate ==
    \/ event \in PressEvents /\ status = "Captured"
    \/ event \in MoveEvents /\ local_is_dragging /\ cursor.kind = "Available"

AtOrPastFarEdge(cur) ==
    cur.kind = "Available" /\ DragCoord(cur) >= TrackOrigin + TrackExtent

AtOrBeforeNearEdge(cur) ==
    cur.kind = "Available" /\ DragCoord(cur) <= TrackOrigin

\* C13: in both orientations a coordinate at or past the far edge of the
\* track locates range.end and one at or before the near edge locates
\* range.start, whatever the step and the stored value.
C13_EdgeClamp ==
    /\ \A cur \in Cursors :
           /\ AtOrPastFarEdge(cur) => locate(cur) = range.end
           /\ AtOrBeforeNearEdge(cur) => locate(cur) = range.start
    /\ AppliedLocate =>
           /\ AtOrPastFarEdge(cursor) => value = range.end
           /\ AtOrBeforeNearEdge(cursor) => value = range.start

\* A drag to a place before the track, from another value, with a step
\* other than 1: the notification carries range.start.
C13_Witness ==
    /\ event \in MoveEvents /\ local_is_dragging
    /\ cursor.kind = "Available" /\ DragCoord(cursor) < TrackOrigin
    /\ step # 1 /\ local_value # range.start
    /\ published = << on_change(index, range.start) >> /\ value = range.start

\* The entry of a recorded run ran locate on its cursor.
EntryLocated(e) ==
    \/ e.event \in PressEvents /\ e.status = "Captured"
    \/ e.event \in MoveEvents /\ e.was_dragging /\ e.cursor.kind = "Available"

\* min(round(percent * (end - start) / step) * step + start, end) with
\* percent = (coord - trackOrigin) / trackExtent, for a step other than 0.
InteriorValue(cur) ==
    min(round((DragCoord(cur) - TrackOrigin) * (range.end - range.start),
              TrackExtent * step) * step + range.start,
        range.end)

\* C14: for a coordinate strictly inside the track locate returns
\* min(round(percent * (end - start) / step) * step + start, end); with the
\* range 0..=100 and step 10 a pointer at 24% of the track gives 20.
C14_InteriorLocate ==
    /\ \A cur \in ScenarioCursors :
           InsideTrack(cur) => locate(cur) = InteriorValue(cur)
    /\ \A i \in 1 .. Len(history) :
           (EntryLocated(history[i]) /\ InsideTrack(history[i].cursor))
               => history[i].value = InteriorValue(history[i].cursor)
    /\ (range = RangeInclusive(0, 100) /\ step = 10) =>
           /\ 100 * 24 = 24 * TrackExtent
           /\ locate(OnTrack(24)) = 20
           /\ \A i \in 1 .. Len(history) :
                  (EntryLocated(history[i]) /\ history[i].cursor = OnTrack(24))
                      => history[i].value = 20

\* A drag to 24% of the track of the range 0..=100 with step 10: the
\* notification carries 20.
C14_Witness ==
    /\ range = RangeInclusive(0, 100) /\ step = 10
    /\ Len(history) = 2
    /\ history[2].event \in MoveEvents /\ history[2].was_dragging
    /\ history[2].cursor = OnTrack(24) /\ InsideTrack(OnTrack(24))
    /\ history[2].published = << on_change(index, 20) >>
    /\ value = 20

\* C15: with range.start <= range.end and step > 0, every value carried by
\* a change notification is range.start + k * step for a natural number k,
\* also when end - start is not a multiple of step.
C15_StepQuantized ==
    (range.start <= range.end /\ step > 0) =>
        \A v \in ChangeValues :
            v >= range.start /\ (v - range.start) % step = 0

\* The scenario: pointer-down at 100, move to 150, move to -10, pointer-up,
\* with what each call is to publish and the drag state it is to leave.
ScenarioEvents == << "ButtonPressed", "CursorMoved", "CursorMoved", "ButtonReleased" >>

ScenarioPointer == << 100, 150, -10, -10 >>

ScenarioPublished ==
    << << >>, << on_change(index, 150) >>, << on_change(index, 0) >>,
       << ReleaseMessage >> >>

ScenarioDragging == << TRUE, TRUE, TRUE, FALSE >>

\* The Divider of the scenario, and a run that follows it for n calls.
IsScenarioDivider ==
    /\ range = RangeInclusive(0, 400) /\ step = 1 /\ TrackExtent = 400
    /\ on_release

FollowsScenario(n) ==
    /\ n <= Len(history) /\ n <= Len(ScenarioEvents)
    /\ n >= 1 => (history[1].old_value = 100 /\ ~history[1].was_dragging)
    /\ \A i \in 1 .. n :
           /\ history[i].event = ScenarioEvents[i]
           /\ history[i].cursor = OnTrack(ScenarioPointer[i])

\* C16: with range 0..=400, step 1, a track of 400, the handle at 100 and
\* on_release set, pointer-down at 100, move to 150, move to -10, pointer-up
\* publish in this order: nothing (the state becomes Dragging), the change
\* to 150, the change to 0, the release message once, and end Idle.
C16_Scenario ==
    IsScenarioDivider =>
        \A n \in 1 .. Len(history) :
            FollowsScenario(n) =>
                /\ history[n].published = ScenarioPublished[n]
                /\ history[n].is_dragging = ScenarioDragging[n]
                /\ history[n].status = "Captured"

\* The whole scenario was run.
C16_Witness ==
    /\ IsScenarioDivider /\ direction = "Horizontal"
    /\ Len(history) = 4 /\ FollowsScenario(4)
    /\ ~is_dragging /\ value = 0 /\ published = << ReleaseMessage >>

\* C17: in every reachable state and in both orientations the rectangle of
\* the press hit test (origin + value on the drag axis) is the rectangle
\* drawn for the handle (origin + draw offset), for every value, range and
\* track extent.
C17_HitBoxIsDrawnHandle ==
    /\ FracEq(Frac(handle_bounds.x, 1), draw_quad.x)
    /\ FracEq(Frac(handle_bounds.y, 1), draw_quad.y)
    /\ handle_bounds.width = draw_quad.width
    /\ handle_bounds.height = draw_quad.height

\* C18: in both orientations the handle is drawn at trackOrigin + offset on
\* the drag axis, with offset = trackExtent * (value - start) / (end - start)
\* when start < end and 0 otherwise, trackExtent being the whole extent of
\* the layout along the drag axis.
C18_DrawOffsetFormula ==
    LET offset == IF range.start < range.end
                  THEN Frac(TrackExtent * (value - range.start),
                            range.end - range.start)
                  ELSE Frac(0, 1)
        drawn  == IF direction = "Horizontal" THEN draw_quad.x ELSE draw_quad.y
    IN  /\ FracEq(draw_offset, offset)
        /\ FracEq(drawn, Frac(TrackOrigin * offset.den + offset.num, offset.den))

\* C19: a non-positive step given to step() never reaches the division of
\* locate: whenever on_event ran the interior branch of locate, which
\* divides by the step, the step of the Divider is positive.
C19_StepGuarded ==
    (AppliedLocate /\ InsideTrack(cursor)) => step > 0

\* C20: when range.start >= range.end, locate gives range.start for every
\* cursor coordinate, before, inside and past the track, and the draw
\* offset is 0.
C20_DegenerateRange ==
    (range.start >= range.end) =>
        /\ \A cur \in Cursors :
               cur.kind = "Available" => locate(cur) = range.start
        /\ AppliedLocate => value = range.start
        /\ FracEq(draw_offset, Frac(0, 1))

\* C21: when range.start > range.end, Divider::new stores range.start for
\* every given value.
C21_DegenerateConstruction ==
    (call.op = "new" /\ range.start > range.end) => value = range.start

\* C24: mouse_interaction returns the resize hint of the orientation exactly
\* when the state is Dragging or the cursor is over the handle rectangle at
\* trackOrigin + value, and the default interaction otherwise.
C24_CursorAffordance ==
    \A cur \in Cursors :
        mouse_interaction(cur) =
            IF is_dragging \/ OverHandleAt(value, cur)
            THEN IF direction = "Horizontal" THEN "ResizingHorizontally"
                 ELSE "ResizingVertically"
            ELSE "None"

\* A vertical drag with the cursor off the handle: the hint is the vertical
\* one, as it is for a cursor over the handle.
C24_Witness ==
    /\ direction = "Vertical" /\ is_dragging
    /\ cursor.kind = "Available" /\ ~OverHandleAt(value, cursor)
    /\ mouse_interaction(cursor) = "ResizingVertically"
    /\ \E cur \in Cursors :
          OverHandleAt(value, cur) /\ mouse_interaction(cur) = "ResizingVertically"

\* The cursor is over the widget's bounds.
OverBounds(cur) ==
    /\ cur.kind = "Available"
    /\ bounds.x <= cur.x /\ cur.x < bounds.x + bounds.width
    /\ bounds.y <= cur.y /\ cur.y < bounds.y + bounds.height

\* C25: the status draw resolves is Dragged whenever the state is Dragging,
\* Hovered when it is not and the cursor is over the bounds, Active
\* otherwise.
C25_StatusPriority ==
    \A cur \in Cursors :
        /\ is_dragging => draw_status(cur) = "Dragged"
        /\ (~is_dragging /\ OverBounds(cur)) => draw_status(cur) = "Hovered"
        /\ (~is_dragging /\ ~OverBounds(cur)) => draw_status(cur) = "Active"

\* A drag whose last move left the cursor over the bounds, drawn Dragged;
\* some cursor off the bounds is drawn Dragged as well.
C25_Witness ==
    /\ is_dragging /\ event \in MoveEvents
    /\ OverBounds(cursor) /\ draw_status(cursor) = "Dragged"
    /\ \E cur \in Cursors : ~OverBounds(cur) /\ draw_status(cur) = "Dragged"

\* The messages without the index of the change notifications.
StripIndex(msgs) ==
    [ i \in 1 .. Len(msgs) |->
        IF msgs[i][1] = "on_change" THEN << "on_change", msgs[i][3] >> ELSE msgs[i] ]

\* Two results of on_event that differ at most in the index of the change
\* notifications.
SameButIndex(a, b) ==
    /\ a.value = b.value /\ a.is_dragging = b.is_dragging
    /\ a.status = b.status
    /\ StripIndex(a.published) = StripIndex(b.published)

\* The step leaves a Divider that differs from the one before in the index
\* only, in the same drag state.
OnlyIndexDiffers ==
    /\ index' # index
    /\ value' = value /\ is_dragging' = is_dragging
    /\ UNCHANGED << range, handle_width, handle_height, step, on_release,
                    width, height, direction, bounds >>

\* C22: every change notification carries the index given at construction;
\* two Dividers that differ in the index only answer every event with the
\* same stored value, drag state and status and with the same messages but
\* for the index in them.  The two Dividers are the one before and the one
\* after a reconstruction that changes the index only; as they leave every
\* event in states that again differ in the index only, the same holds for
\* every sequence of events.
C22_IndexPurePayload ==
    [][ /\ \A i \in 1 .. Len(published') :
              published'[i][1] = "on_change" => published'[i][2] = index'
        /\ OnlyIndexDiffers =>
              \A ev \in PressEvents \cup ReleaseEvents \cup MoveEvents \cup OtherEvents,
                 cur \in Cursors :
                  SameButIndex(on_event(ev, cur), on_event(ev, cur)') ]_vars

\* A Divider built with index 1 publishes a change that carries 1, and a
\* press on its handle is captured as it is for index 0.
C22_Witness ==
    /\ index = 1
    /\ event \in PressEvents /\ status = "Captured"
    /\ published = << on_change(1, value) >>

\* The cursors that have a position.
Points == { cur \in Cursors : cur.kind = "Available" }

\* The step changes the bounds and keeps their origin and extent on the drag
\* axis, and range, step and direction.
SameDragAxis ==
    /\ bounds' # bounds
    /\ UNCHANGED << range, step, direction >>
    /\ IF direction = "Horizontal"
       THEN bounds'.x = bounds.x /\ bounds'.width = bounds.width
       ELSE bounds'.y = bounds.y /\ bounds'.height = bounds.height

\* C23: the located value depends on the cursor through its coordinate on
\* the drag axis only (x when Horizontal, y when Vertical), and on the bounds
\* through their origin and extent on that axis only: two cursors with the
\* same drag coordinate locate the same value, and a layout pass that keeps
\* the bounds on the drag axis keeps the located value of every cursor.
C23_OrientationSelectsAxis ==
    /\ [](\A c1, c2 \in Points :
              DragCoord(c1) = DragCoord(c2) => locate(c1) = locate(c2))
    /\ [][SameDragAxis => \A cur \in Points : locate(cur)' = locate(cur)]_vars

\* A vertical Divider after a layout pass: a cursor inside the track on y and
\* off the bounds on x locates a value inside the range.
C23_Witness ==
    /\ direction = "Vertical" /\ call.op = "layout"
    /\ \E cur \in Points :
          /\ InsideTrack(cur)
          /\ (cur.x < bounds.x \/ cur.x >= bounds.x + bounds.width)
          /\ range.start < locate(cur) /\ locate(cur) < range.end

\* The step is a move of an available cursor delivered right after a
\* reconstruction that found the widget Dragging.
MoveAfterReconstruct ==
    /\ call.op = "new" /\ is_dragging
    /\ call'.op = "on_event" /\ call'.event \in MoveEvents
    /\ call'.cursor.kind = "Available"

\* C26: the state of a widget new to the tree is Idle; a reconstruction of
\* the Divider, whatever index, value, range, handle size and step it is
\* built with, leaves the drag state as it was; a move that follows a
\* reconstruction during a drag is captured as a drag move, and its change
\* closure compares the located value with the reconstructed value.
C26_DragStateOutsideConfiguration ==
    /\ ~is_dragging
    /\ [][ /\ call'.op = "new" => is_dragging' = is_dragging
           /\ MoveAfterReconstruct =>
                 /\ status' = "Captured" /\ is_dragging'
                 /\ local_value' = value
                 /\ value' = locate(call'.cursor)
                 /\ published' =
                       IF locate(call'.cursor) # value
                       THEN << on_change(index, locate(call'.cursor)) >>
                       ELSE << >> ]_vars

\* A drag move that found the value 2 in the range 1..=5 with step 2: with
\* this range and step every press and every move leaves an odd value, so
\* the 2 is the value of a reconstruction made after the drag began; the
\* move published 3.
C26_Witness ==
    /\ range = RangeInclusive(1, 5) /\ step = 2
    /\ event \in MoveEvents /\ local_is_dragging /\ is_dragging
    /\ local_value = 2 /\ value = 3
    /\ published = << on_change(index, 3) >>

\* C29: the located value of a cursor is a function of the cursor, the
\* bounds, the range, the step and the direction: a step that keeps bounds,
\* range, step and direction keeps the located value of every cursor,
\* whatever it does to the stored value and the drag state, and so whatever
\* events came before.
C29_LocatePure ==
    [][ UNCHANGED << range, step, direction, bounds >> =>
            \A cur \in Points : locate(cur)' = locate(cur) ]_vars

\* A drag move that changed the stored value: the cursor still locates the
\* value the move stored.
C29_Witness ==
    /\ event \in MoveEvents /\ local_is_dragging
    /\ cursor.kind = "Available"
    /\ value # local_value /\ locate(cursor) = value

\* The fields of the Divider but the one named.
FieldsBut(name) ==
    [ f \in (DOMAIN self) \ {name} |-> self[f] ]

\* The last call was the builder of the field name and changed no other field.
OnlyField(name) ==
    call'.op = name => FieldsBut(name)' = FieldsBut(name)

\* C30: a Divider from Divider::new has step 1, direction Horizontal and no
\* release message; each of on_release, width, height, step and direction
\* sets its own field to its argument and leaves every other field, the
\* stored value among them, as it was.
C30_DefaultsAndBuilderFrame ==
    /\ [](call.op = "new" =>
            step = 1 /\ direction = "Horizontal" /\ ~on_release)
    /\ [][ /\ OnlyField("on_release") /\ OnlyField("width")
           /\ OnlyField("height") /\ OnlyField("step")
           /\ OnlyField("direction")
           /\ call'.op = "on_release" => on_release'
           /\ call'.op = "width" => width' = call'.arg
           /\ call'.op = "height" => height' = call'.arg
           /\ call'.op = "step" => step' = call'.arg
           /\ call'.op = "direction" => direction' = call'.arg ]_vars

\* step(3) at the end of a builder chain on a Divider whose value 4 is not
\* a multiple of 3 and lies in the range 0..=4: the value is still 4.
C30_Witness ==
    /\ call.op = "step" /\ step = 3
    /\ range = RangeInclusive(0, 4) /\ value = 4
    /\ direction = "Vertical" /\ on_release
    /\ width = Fixed(4) /\ height = Fixed(21)

\* The cursor is inside the rectangle of handle i.
OverHandle(i, cur) ==
    /\ cur.kind = "Available"
    /\ bounds.x + values[i + 1] <= cur.x
    /\ cur.x < bounds.x + values[i + 1] + handle_width
    /\ bounds.y <= cur.y /\ cur.y < bounds.y + handle_height

\* The step is a press with the given cursor.
PressWith(cur) ==
    call'.op = "on_event" /\ call'.event \in PressEvents /\ call'.cursor = cur

\* The press was captured by handle i: it is the active handle, the state is
\* Dragging, and the change closure put it at the located value.
CapturedBy(i, cur) ==
    /\ status' = "Captured" /\ is_dragging' /\ active_index' = i
    /\ values' = [values EXCEPT ![i + 1] = locate(cur)]
    /\ published' = IF locate(cur) # values[i + 1]
                    THEN << on_change(i, locate(cur)) >> ELSE << >>

\* C27: with three handles and the last one excluded, a press in state Idle
\* with the cursor on the last handle and on no other is ignored: the state
\* stays Idle, no value changes and nothing is published; a press with the
\* cursor on handle 0, or on handle 1 and not on handle 0, is captured by
\* that handle as a press on a single handle is.
C27_LastHandleExcluded ==
    [][ \A cur \in MultiCursors :
          (PressWith(cur) /\ handle_count = 3 /\ ~include_last_handle
                          /\ ~is_dragging) =>
              /\ (OverHandle(2, cur) /\ ~OverHandle(0, cur) /\ ~OverHandle(1, cur)) =>
                    /\ status' = "Ignored" /\ ~is_dragging'
                    /\ published' = << >> /\ values' = values
              /\ OverHandle(0, cur) => CapturedBy(0, cur)
              /\ (OverHandle(1, cur) /\ ~OverHandle(0, cur)) => CapturedBy(1, cur) ]_vars

\* A press on the excluded last handle, ignored in state Idle.
C27_Witness ==
    /\ handle_count = 3 /\ ~include_last_handle
    /\ event \in PressEvents /\ status = "Ignored"
    /\ ~local_is_dragging /\ ~is_dragging
    /\ OverHandle(2, cursor) /\ ~OverHandle(0, cursor) /\ ~OverHandle(1, cursor)

\* C28: one drag state and one active index serve all handles, so at most
\* one handle is dragged; while a handle is dragged, a press with the cursor
\* on another handle and off the dragged one is ignored: the active handle,
\* the drag state and every value stay and nothing is published.
C28_SingleDrag ==
    [][ \A cur \in MultiCursors :
          (PressWith(cur) /\ is_dragging /\ ~OverHandle(active_index, cur)
             /\ \E j \in 0 .. handle_count - 1 : OverHandle(j, cur)) =>
              /\ status' = "Ignored" /\ is_dragging'
              /\ active_index' = active_index /\ values' = values
              /\ published' = << >> ]_vars

\* A press on handle 2 during the drag of handle 0, ignored.
C28_Witness ==
    /\ include_last_handle
    /\ event \in PressEvents /\ status = "Ignored"
    /\ local_is_dragging /\ is_dragging /\ active_index = 0
    /\ OverHandle(2, cursor) /\ ~OverHandle(0, cursor)

\* The step delivers an event of the given set.
Delivers(evs) == call'.op = "on_event" /\ call'.event \in evs

\* C31: a press or a move received while Dragging leaves the state Dragging
\* and publishes no release message, so no sequence of them ends the drag;
\* a release, finger-lifted or finger-lost event received while Dragging
\* returns the state to Idle; with such an event delivered sooner or later,
\* Dragging leads to Idle.
C31_DraggingEnds ==
    /\ [][(is_dragging /\ Delivers(PressEvents \cup MoveEvents)) =>
              is_dragging' /\ ReleasesIn(published') = 0]_vars
    /\ [][(is_dragging /\ Delivers(ReleaseEvents)) => ~is_dragging']_vars
    /\ (is_dragging ~> ~is_dragging)

\* A drag ended by a lifted finger whose cursor position is unavailable.
C31_Witness ==
    /\ event = "FingerLifted" /\ cursor = Unavailable
    /\ local_is_dragging /\ ~is_dragging /\ status = "Captured"

\* The kinds of the messages of the last on_event.
PublishedKinds == { published[i][1] : i \in 1 .. Len(published) }

\* C32: an on_event call publishes at most one message; a press or a move
\* publishes nothing but change notifications, a release, finger-lifted or
\* finger-lost event nothing but the release message.
C32_OneTypedMessage ==
    call.op = "on_event" =>
        /\ Len(published) <= 1
        /\ event \in PressEvents \cup MoveEvents =>
               PublishedKinds \subseteq {"on_change"}
        /\ event \in ReleaseEvents => PublishedKinds \subseteq {"on_release"}

\* A move of a Divider with a release message that published one change
\* notification.
C32_Witness ==
    /\ event \in MoveEvents /\ on_release
    /\ Len(published) = 1 /\ PublishedKinds = {"on_change"}

\* The calls of the run that published a change notification.
ChangeCalls ==
    { i \in 1 .. Len(history) :
        history[i].published # << >> /\ history[i].published[1][1] = "on_change" }

\* The value the Divider of the run was constructed with: the clamped
\* argument of new, which the first call of the run found.
ConstructionValue ==
    IF history = << >>
    THEN IF call.value < range.start THEN range.start
         ELSE IF call.value > range.end THEN range.end
         ELSE call.value
    ELSE history[1].old_value

\* C33: over a run on one Divider, the stored value is the value carried by
\* the last change notification published, or the construction value when
\* none was; a call that publishes no change notification leaves the stored
\* value.
C33_ValueTracksNotifications ==
    /\ value = IF ChangeCalls = {} THEN ConstructionValue
               ELSE LET last == CHOOSE i \in ChangeCalls :
                                    \A j \in ChangeCalls : j <= i
                    IN  history[last].published[1][3]
    /\ \A i \in (1 .. Len(history)) \ ChangeCalls :
           history[i].value = history[i].old_value

\* A press and a move that published different values, then a release that
\* published no change: the stored value is the value of the move.
C33_Witness ==
    /\ Len(history) = 3 /\ ChangeCalls = {1, 2}
    /\ history[1].event \in PressEvents /\ history[2].event \in MoveEvents
    /\ history[3].event \in ReleaseEvents
    /\ history[1].published[1][3] # history[2].published[1][3]
    /\ value = history[2].published[1][3]

\* C34: the state becomes Dragging only in a left-button or finger press
\* with the cursor over the handle rectangle, and Idle only in a release,
\* finger-lifted or finger-lost event received while Dragging; a move and
\* any other event leave the drag state, and any other event is ignored,
\* publishes nothing and leaves the value.
C34_DragStateTransitions ==
    /\ (is_dragging /\ ~local_is_dragging) =>
           event \in PressEvents /\ OverHandleAt(local_value, cursor)
    /\ (~is_dragging /\ local_is_dragging) => event \in ReleaseEvents
    /\ event \in MoveEvents \cup OtherEvents => is_dragging = local_is_dragging
    /\ event \in OtherEvents =>
           status = "Ignored" /\ published = << >> /\ value = local_value

\* Another event received while Dragging with the cursor over the handle:
\* ignored, still Dragging.
C34_Witness ==
    /\ event \in OtherEvents /\ local_is_dragging /\ is_dragging
    /\ OverHandleAt(value, cursor) /\ status = "Ignored"

\* The call e of a run is a press received while Dragging with the cursor
\* over the handle rectangle.
PressWhileDragging(e) ==
    /\ e.event \in PressEvents /\ e.was_dragging
    /\ OverHandleAt(e.old_value, e.cursor)

\* C35: a press received while Dragging with the cursor over the handle
\* rectangle is captured, leaves the state Dragging, stores and publishes
\* the located value when it differs from the stored one and publishes
\* nothing otherwise, never the release message; a press that starts a
\* drag, a second press and a release publish the release message once in
\* all when on_release is set.
C35_PressWhileDragging ==
    /\ \A i \in 1 .. Len(history) :
           PressWhileDragging(history[i]) =>
               LET e == history[i]
               IN  /\ e.status = "Captured" /\ e.is_dragging
                   /\ e.value = locate(e.cursor)
                   /\ e.published =
                         IF locate(e.cursor) # e.old_value
                         THEN << on_change(index, locate(e.cursor)) >>
                         ELSE << >>
    /\ \A i \in 1 .. Len(history) - 2 :
           ( /\ on_release
             /\ history[i].event \in PressEvents /\ history[i].is_dragging
             /\ history[i + 1].event \in PressEvents
             /\ history[i + 2].event \in ReleaseEvents )
           => ReleaseCount(SubSeq(history, i, i + 2)) = 1

\* A press that starts a drag without changing the value, a second press on
\* the handle that changes it, and a release: one release message.
C35_Witness ==
    /\ on_release /\ Len(history) = 3
    /\ history[1].event \in PressEvents /\ ~history[1].was_dragging
    /\ history[1].is_dragging
    /\ PressWhileDragging(history[2]) /\ history[2].published # << >>
    /\ history[2].is_dragging
    /\ history[3].event \in ReleaseEvents
    /\ history[3].published = << ReleaseMessage >>
    /\ ReleaseCount(history) = 1

\* C36: a move received while Dragging with the cursor position unavailable
\* is captured, publishes nothing and leaves the stored value and the state
\* Dragging.
C36_MoveWithoutCursor ==
    (event \in MoveEvents /\ local_is_dragging /\ cursor = Unavailable) =>
        /\ status = "Captured"
        /\ published = << >>
        /\ value = local_value
        /\ is_dragging

\* A finger move without a position during a drag of a Divider laid out
\* vertically.
C36_Witness ==
    /\ event = "FingerMoved" /\ cursor = Unavailable
    /\ local_is_dragging /\ is_dragging
    /\ direction = "Vertical" /\ status = "Captured"

====
